---- MODULE Spec2Model ----
(***************************************************************************)
(* Model of the retrieval / fusion / answer-synthesis core of the mini RAG *)
(* service: HybridReranker (reranker.py), AnswerGenerator                  *)
(* (answer_generator.py) and the /ask handler (main.py).                   *)
(*                                                                         *)
(* Scores are exact rationals [n, d] in lowest terms (the code uses        *)
(* floats).  Strings the code tokenises with regular expressions are       *)
(* modelled by a small table of texts together with the tokens the regular *)
(* expressions yield on them.                                              *)
(***************************************************************************)
EXTENDS Integers, Sequences, FiniteSets, TLC

VARIABLES
    alpha,          \* config.ALPHA as read by reranker.py
    bm25,           \* HybridReranker.bm25: None or the BM25Okapi index
    chunk_ids,      \* HybridReranker.chunk_ids
    corpus,         \* HybridReranker.corpus
    pc,             \* where the service is: "idle" or the kind of the last call
    request,        \* the request / call arguments being answered
    candidates,     \* what vector_search.search returned
    bm25_scores,    \* what self.bm25.get_scores(query_tokens) returned
    reranked_results, \* what HybridReranker.rerank returned
    contexts,       \* the list handed to AnswerGenerator.format_response
    response,       \* the response of the call
    search_k,       \* the k the call handed to vector_search.search
    seen,           \* what the running rerank has read of self.bm25, self.chunk_ids
    build,          \* the latest call of _build_bm25_index and how far it has got
    split           \* the call of PDFProcessor.split_into_chunks, None when there is none

vars == <<alpha, bm25, chunk_ids, corpus, pc, request, candidates,
          bm25_scores, reranked_results, contexts, response, search_k, seen, build,
          split>>

-----------------------------------------------------------------------------
(* Bounds of the model *)

\* largest number of chunks in the chunks table when the BM25 index is built
MaxCorpus == 2
\* largest number of candidates the vector search returns
MaxCands == 3
\* largest number of contexts handed to the answer generator on its own
MaxContexts == 4
\* largest number of calls of _build_bm25_index on one reranker
MaxBuilds == 2
\* largest number of chunks of a corpus larger than the candidate pool
MaxPool == 32
\* largest number of words of a text handed to split_into_chunks
MaxWords == 700

-----------------------------------------------------------------------------
(* Exact rational arithmetic for scores *)

RECURSIVE GCD(_, _)
GCD(a, b) == IF b = 0 THEN a ELSE GCD(b, a % b)

Abs(x) == IF x < 0 THEN -x ELSE x

\* the rational n/d (d > 0) in lowest terms
Rat(n, d) == LET g == GCD(Abs(n), d) IN [n |-> n \div g, d |-> d \div g]

Zero == Rat(0, 1)
One == Rat(1, 1)

RLess(a, b) == a.n * b.d < b.n * a.d
RLeq(a, b) == a.n * b.d <= b.n * a.d
RAdd(a, b) == Rat(a.n * b.d + b.n * a.d, a.d * b.d)
RSub(a, b) == Rat(a.n * b.d - b.n * a.d, a.d * b.d)
RMul(a, b) == Rat(a.n * b.n, a.d * b.d)
\* a / b for b > 0
RDiv(a, b) == Rat(a.n * b.d, a.d * b.n)

Range(s) == {s[i] : i \in DOMAIN s}

\* Python's min() and max() of a non-empty list of scores
MinScore(scores) == CHOOSE m \in Range(scores) : \A x \in Range(scores) : RLeq(m, x)
MaxScore(scores) == CHOOSE m \in Range(scores) : \A x \in Range(scores) : RLeq(x, m)

\* f"{x:.3f}": the score in thousandths, rounded to the nearest
Fmt3(x) == (2 * 1000 * x.n + x.d) \div (2 * x.d)

-----------------------------------------------------------------------------
(* Configuration, config.py *)

SIMILARITY_THRESHOLD == Rat(7, 10)
ALPHA == Rat(6, 10)
CANDIDATE_K == 30

\* the fusion weights the model is checked with: the configured one and the
\* ones the specification's properties name
AlphaValues == {Rat(0, 1), Rat(1, 2), ALPHA, Rat(1, 1)}

-----------------------------------------------------------------------------
(* Texts: questions, passages and what the regular expressions make of them *)

\* a Python None
None == [none |-> TRUE]

\* question strings a request may carry
Questions == {"What is ISO 13849-1?", "???", "  "}

\* str.strip()
Strip(s) == IF s = "  " THEN "" ELSE s

\* re.findall(r'\b\w+\b', text.lower()) on a question
QueryTokens(q) ==
    CASE q = "What is ISO 13849-1?" -> <<"what", "is", "iso", "13849", "1">>
      [] q = "What is ISO 13849-1 safety standard?" ->
             <<"what", "is", "iso", "13849", "1", "safety", "standard">>
      [] OTHER -> <<>>

\* The sentences of the passages: re.split(r'[.!?]+', text), stripped, without
\* the empty ones.  "ISO 13849-1 is an international standard. It provides
\* guidance." is the passage of the specification's scenario B.
SentenceWords(s) ==
    CASE s = "ISO 13849-1 is an international standard" ->
             {"iso", "13849", "1", "is", "an", "international", "standard"}
      [] s = "It provides guidance" -> {"it", "provides", "guidance"}
      [] s = "What is it" -> {"what", "is", "it"}
      [] s = "ISO 13849-1 is" -> {"iso", "13849", "1", "is"}
      [] s = "What is 1" -> {"what", "is", "1"}
      [] s = "The standard defines performance levels" ->
             {"the", "standard", "defines", "performance", "levels"}
      [] s = "The performance level is what matters" ->
             {"the", "performance", "level", "is", "what", "matters"}
      [] OTHER -> {}

\* len(sentence)
SentenceLen(s) ==
    CASE s = "ISO 13849-1 is an international standard" -> 40
      [] s = "It provides guidance" -> 20
      [] s = "What is it" -> 10
      [] s = "ISO 13849-1 is" -> 14
      [] s = "What is 1" -> 9
      [] s = "The standard defines performance levels" -> 39
      [] s = "The performance level is what matters" -> 37
      [] OTHER -> 0

\* the chunks table: chunk_text and title of the chunk with a given id
PassageKinds ==
    << [sentences |-> <<"ISO 13849-1 is an international standard",
                        "It provides guidance">>,
        title |-> "ISO 13849-1:2015"],
       [sentences |-> <<"The standard defines performance levels", "What is it">>,
        title |-> "ISO 13849-1:2015"],
       [sentences |-> <<"ISO 13849-1 is", "What is 1",
                        "The performance level is what matters">>,
        title |-> "IEC 61508"],
       [sentences |-> <<"The performance level is what matters",
                        "ISO 13849-1 is an international standard">>,
        title |-> "OSHA 3170"] >>

Chunk(id) == PassageKinds[((id - 1) % Len(PassageKinds)) + 1]

-----------------------------------------------------------------------------
(* reranker.py: HybridReranker *)

\* BM25 scores rank_bm25 may give an indexed passage for a query with tokens
LScores == {Zero, Rat(1, 5), Rat(4, 5)}

\* the rows of "SELECT id, chunk_text FROM chunks ORDER BY id" for a chunks
\* table of n rows (AUTOINCREMENT ids); the text of row id is Chunk(id)
Chunks(n) == [i \in 1..n |-> i]

\* _build_bm25_index: reads the table and, unless it is empty, appends the ids
\* to self.chunk_ids and replaces self.corpus and self.bm25; the index keeps
\* the documents it was built over (docs: the rows, in the order given)
_build_bm25_index(self, chunks) ==
    IF chunks = <<>> THEN self
    ELSE [bm25 |-> [corpus_size |-> Len(chunks), docs |-> chunks],
          chunk_ids |-> self.chunk_ids \o chunks,
          corpus |-> chunks]

\* a call of _build_bm25_index that has returned: the rows it read, and how
\* many calls there have been
Returned_build(chunks, calls) == [pc |-> "returned", chunks |-> chunks, i |-> 0, calls |-> calls]

\* HybridReranker.__init__
HybridReranker(chunks) ==
    _build_bm25_index([bm25 |-> None, chunk_ids |-> <<>>, corpus |-> <<>>], chunks)

\* self.bm25.get_scores(query_tokens): one score per document of the index,
\* all zero when the query has no token; otherwise whatever BM25 gives
get_scores(index, query_tokens) ==
    IF query_tokens = <<>> THEN {[i \in 1..index.corpus_size |-> Zero]}
    ELSE [1..index.corpus_size -> LScores]

\* _normalize_scores: min-max normalisation, all 1.0 when max = min; the _by_max
\* variant divides by the maximum alone, the _tie_zero variant returns
\* [0.0] * len(scores) on a tie
_normalize_scores_tie_zero(scores) ==
    IF scores = <<>> THEN scores
    ELSE LET min_score == MinScore(scores)
             max_score == MaxScore(scores)
         IN  IF max_score = min_score
             THEN [i \in DOMAIN scores |-> Zero]
             ELSE [i \in DOMAIN scores |->
                      RDiv(RSub(scores[i], min_score), RSub(max_score, min_score))]
_normalize_scores_by_max(scores) ==
    IF scores = <<>> THEN scores
    ELSE LET max_score == MaxScore(scores)
         IN  IF max_score = Zero
             THEN [i \in DOMAIN scores |-> One]
             ELSE [i \in DOMAIN scores |-> RDiv(scores[i], max_score)]
_normalize_scores(scores) ==
    IF scores = <<>> THEN scores
    ELSE LET min_score == MinScore(scores)
             max_score == MaxScore(scores)
         IN  IF max_score = min_score
             THEN [i \in DOMAIN scores |-> One]
             ELSE [i \in DOMAIN scores |->
                      RDiv(RSub(scores[i], min_score), RSub(max_score, min_score))]

\* hybrid_results.sort(key=lambda x: x['hybrid_score'], reverse=True):
\* Python's sort is stable, also with reverse=True; the _unstable variant puts
\* a result before the results of equal score
InsertByHybridScore_unstable(sorted, x) ==
    LET p == Cardinality({i \in DOMAIN sorted :
                             RLess(x.hybrid_score, sorted[i].hybrid_score)})
    IN  SubSeq(sorted, 1, p) \o <<x>> \o SubSeq(sorted, p + 1, Len(sorted))
InsertByHybridScore(sorted, x) ==
    LET p == Cardinality({i \in DOMAIN sorted :
                             RLeq(x.hybrid_score, sorted[i].hybrid_score)})
    IN  SubSeq(sorted, 1, p) \o <<x>> \o SubSeq(sorted, p + 1, Len(sorted))

RECURSIVE SortByHybridScore(_)
SortByHybridScore(results) ==
    IF results = <<>> THEN <<>>
    ELSE InsertByHybridScore(SortByHybridScore(SubSeq(results, 1, Len(results) - 1)),
                             results[Len(results)])

\* the dict chunk_id_to_bm25 built by the loop over enumerate(self.chunk_ids):
\* a later position of an id overwrites an earlier one
ChunkIdToBm25(self, scores) ==
    [id \in Range(self.chunk_ids) |->
        scores[CHOOSE i \in DOMAIN self.chunk_ids :
                  /\ self.chunk_ids[i] = id
                  /\ \A j \in DOMAIN self.chunk_ids : j > i => self.chunk_ids[j] # id]]

\* chunk_id_to_bm25.get(result['id'], 0.0)
Bm25ScoreOf(map, id) == IF id \in DOMAIN map THEN map[id] ELSE Zero

\* ALPHA * normalized_vector + (1 - ALPHA) * normalized_bm25; the _swapped variant
\* exchanges the weights, the _fixed variant hard-codes 0.6 and 0.4
HybridScore_swapped(a, nv, nb) == RAdd(RMul(RSub(One, a), nv), RMul(a, nb))
HybridScore_fixed(a, nv, nb) == RAdd(RMul(Rat(6, 10), nv), RMul(Rat(4, 10), nb))
HybridScore(a, nv, nb) == RAdd(RMul(a, nv), RMul(RSub(One, a), nb))

\* bm25_scores[i] raises IndexError when self.chunk_ids is longer than the scores;
\* the _on_unknown_id variant is the lookup chunk_id_to_bm25[result['id']], which
\* raises KeyError for an id the index does not hold
RerankRaises_on_unknown_id(self, scores, vector_results) ==
    /\ vector_results # <<>>
    /\ self.bm25 # None
    /\ \/ Len(self.chunk_ids) > Len(scores)
       \/ \E i \in DOMAIN vector_results : vector_results[i].id \notin Range(self.chunk_ids)
RerankRaises(self, scores, vector_results) ==
    /\ vector_results # <<>>
    /\ self.bm25 # None
    /\ Len(self.chunk_ids) > Len(scores)

\* rerank, where no exception is raised; scores is what get_scores returned.
\* The _indexed_only variant fuses only the candidates whose id the index
\* holds, as a loop over chunk_id_to_bm25 instead of vector_results would.
rerank_indexed_only(self, a, scores, vector_results) ==
    IF vector_results = <<>> \/ self.bm25 = None THEN vector_results
    ELSE LET chunk_id_to_bm25 == ChunkIdToBm25(self, scores)
             held == SelectSeq(vector_results, LAMBDA r : r.id \in DOMAIN chunk_id_to_bm25)
             vector_scores == [i \in DOMAIN held |-> held[i].vector_score]
             bm25_scores_subset == [i \in DOMAIN held |-> chunk_id_to_bm25[held[i].id]]
             normalized_vector_scores == _normalize_scores(vector_scores)
             normalized_bm25_scores == _normalize_scores(bm25_scores_subset)
             hybrid_results ==
                 [i \in DOMAIN held |->
                     [id |-> held[i].id,
                      vector_score |-> held[i].vector_score,
                      hybrid_score |-> HybridScore(a, normalized_vector_scores[i],
                                                   normalized_bm25_scores[i]),
                      bm25_score |-> bm25_scores_subset[i],
                      normalized_vector_score |-> normalized_vector_scores[i],
                      normalized_bm25_score |-> normalized_bm25_scores[i]]]
         IN  SortByHybridScore(hybrid_results)
rerank(self, a, scores, vector_results) ==
    IF vector_results = <<>> \/ self.bm25 = None THEN vector_results
    ELSE LET chunk_id_to_bm25 == ChunkIdToBm25(self, scores)
             vector_scores == [i \in DOMAIN vector_results |->
                                  vector_results[i].vector_score]
             bm25_scores_subset == [i \in DOMAIN vector_results |->
                                  Bm25ScoreOf(chunk_id_to_bm25, vector_results[i].id)]
             normalized_vector_scores == _normalize_scores(vector_scores)
             normalized_bm25_scores == _normalize_scores(bm25_scores_subset)
             hybrid_results ==
                 [i \in DOMAIN vector_results |->
                     [id |-> vector_results[i].id,
                      vector_score |-> vector_results[i].vector_score,
                      hybrid_score |-> HybridScore(a, normalized_vector_scores[i],
                                                   normalized_bm25_scores[i]),
                      bm25_score |-> bm25_scores_subset[i],
                      normalized_vector_score |-> normalized_vector_scores[i],
                      normalized_bm25_score |-> normalized_bm25_scores[i]]]
         IN  SortByHybridScore(hybrid_results)

\* what rerank reads of self on its way: nothing on an empty list, self.bm25
\* at its first check, and self.chunk_ids when it builds chunk_id_to_bm25
Seen(self, vector_results) ==
    IF vector_results = <<>> THEN None
    ELSE IF self.bm25 = None THEN [bm25 |-> None]
    ELSE [bm25 |-> self.bm25, chunk_ids |-> self.chunk_ids]

\* a Python slice s[:k]
Take(s, k) == SubSeq(s, 1, IF k < Len(s) THEN k ELSE Len(s))

\* search_with_reranking, given what vector_search.search(query, k=CANDIDATE_K)
\* returned
search_with_reranking(self, a, scores, found, k) ==
    IF found = <<>> THEN <<>> ELSE Take(rerank(self, a, scores, found), k)

-----------------------------------------------------------------------------
(* answer_generator.py: AnswerGenerator *)

\* context.get('hybrid_score', context.get('vector_score', 0))
ScoreOf(context) ==
    IF "hybrid_score" \in DOMAIN context THEN context.hybrid_score
    ELSE IF "vector_score" \in DOMAIN context THEN context.vector_score
    ELSE Zero

\* len(query_words.intersection(sentence_words))
Overlap(query, sentence) ==
    Cardinality(Range(QueryTokens(query)) \cap SentenceWords(sentence))

\* scored_sentences.sort(key=lambda x: x[1], reverse=True), a stable sort
InsertByOverlap(sorted, x) ==
    LET p == Cardinality({i \in DOMAIN sorted : x.score <= sorted[i].score})
    IN  SubSeq(sorted, 1, p) \o <<x>> \o SubSeq(sorted, p + 1, Len(sorted))

RECURSIVE SortByOverlap(_)
SortByOverlap(scored) ==
    IF scored = <<>> THEN <<>>
    ELSE InsertByOverlap(SortByOverlap(SubSeq(scored, 1, Len(scored) - 1)),
                         scored[Len(scored)])

\* _extract_relevant_sentences: of the two sentences with the largest overlap,
\* those with overlap > 0 and more than 20 characters
_extract_relevant_sentences(query, text) ==
    LET scored_sentences == [i \in DOMAIN text |->
                                [sentence |-> text[i], score |-> Overlap(query, text[i])]]
        top == Take(SortByOverlap(scored_sentences), 2)
        kept == SelectSeq(top, LAMBDA x : x.score > 0 /\ SentenceLen(x.sentence) > 20)
    IN  [i \in DOMAIN kept |-> kept[i].sentence]

\* the dict appended to citations for a context
Citation(context, score) ==
    [source |-> Chunk(context.id).title,
     score |-> score,
     text |-> Chunk(context.id).sentences]

\* "if top_score < self.threshold"; the _inclusive variant is the gate written
\* with <=, which would also turn away a score equal to the threshold
BelowThreshold_inclusive(top_score, threshold) == RLeq(top_score, threshold)
BelowThreshold(top_score, threshold) == RLess(top_score, threshold)

\* "if score < self.threshold * 0.7: continue"; the _at_threshold variant holds
\* supporting candidates to the full threshold
SupportSkipped_at_threshold(score, threshold) == RLess(score, threshold)
SupportSkipped(score, threshold) == RLess(score, RMul(threshold, Rat(7, 10)))

\* the reason of an abstention at the gate; the _plain variant is the message
\* without its two values
BelowThresholdReason_plain(top_score, threshold) ==
    [text |-> "Top result score below confidence threshold"]
BelowThresholdReason(top_score, threshold) ==
    [text |-> "Top result score ({top_score:.3f}) below confidence threshold ({self.threshold})",
     top_score |-> Fmt3(top_score),
     threshold |-> threshold]

\* the loop of generate_answer over contexts[:3], after its first i rounds
RECURSIVE Gather(_, _, _, _)
Gather(query, ctxs, threshold, i) ==
    IF i = 0 THEN [answer_parts |-> <<>>, citations |-> <<>>]
    ELSE LET before == Gather(query, ctxs, threshold, i - 1)
             context == ctxs[i]
             score == ScoreOf(context)
             relevant_sentences ==
                 _extract_relevant_sentences(query, Chunk(context.id).sentences)
         IN  IF SupportSkipped(score, threshold) THEN before
             ELSE IF relevant_sentences = <<>> THEN before
             ELSE [answer_parts |-> before.answer_parts \o relevant_sentences,
                   citations |-> Append(before.citations, Citation(context, score))]

\* the first-seen-order deduplication of _combine_answer_parts; the _keep_last
\* variant keeps the last occurrence of a part instead of the first
RECURSIVE UniqueParts_keep_last(_)
UniqueParts_keep_last(answer_parts) ==
    IF answer_parts = <<>> THEN <<>>
    ELSE LET rest == UniqueParts_keep_last(Tail(answer_parts))
             part == Head(answer_parts)
         IN  IF part \in Range(Tail(answer_parts)) THEN rest ELSE <<part>> \o rest
RECURSIVE UniqueParts(_)
UniqueParts(answer_parts) ==
    IF answer_parts = <<>> THEN <<>>
    ELSE LET init == UniqueParts(SubSeq(answer_parts, 1, Len(answer_parts) - 1))
             part == answer_parts[Len(answer_parts)]
         IN  IF part \in Range(init) THEN init ELSE Append(init, part)

\* _combine_answer_parts: the answer is the unique parts joined by " " followed
\* by "Sources: [1] title, [2] title, ..."; the _from_zero variant is
\* enumerate(citations) without its start value
_combine_answer_parts_from_zero(answer_parts, citations) ==
    [parts |-> UniqueParts(answer_parts),
     sources |-> [i \in DOMAIN citations |->
                     [ref |-> i - 1, source |-> citations[i].source]]]
_combine_answer_parts(answer_parts, citations) ==
    [parts |-> UniqueParts(answer_parts),
     sources |-> [i \in DOMAIN citations |-> [ref |-> i, source |-> citations[i].source]]]

\* generate_answer from its second check on: the list is not empty; the
\* _all_contexts variant loops over contexts instead of contexts[:3]
AnswerFrom_all_contexts(query, ctxs, threshold) ==
    LET top_score == ScoreOf(ctxs[1])
        got == Gather(query, ctxs, threshold, Len(ctxs))
    IN  IF BelowThreshold(top_score, threshold)
        THEN [answer |-> None, reason |-> BelowThresholdReason(top_score, threshold)]
        ELSE IF got.answer_parts = <<>>
        THEN [answer |-> None,
              reason |-> [text |-> "No relevant information found in contexts"]]
        ELSE [answer |-> _combine_answer_parts(got.answer_parts, got.citations),
              reason |-> [text |-> "Answer generated from {len(citations)} sources with top score {top_score:.3f}",
                          sources |-> Len(got.citations),
                          top_score |-> Fmt3(top_score)]]
AnswerFrom(query, ctxs, threshold) ==
    LET top_score == ScoreOf(ctxs[1])
        n == IF Len(ctxs) < 3 THEN Len(ctxs) ELSE 3
        got == Gather(query, ctxs, threshold, n)
    IN  IF BelowThreshold(top_score, threshold)
        THEN [answer |-> None, reason |-> BelowThresholdReason(top_score, threshold)]
        ELSE IF got.answer_parts = <<>>
        THEN [answer |-> None,
              reason |-> [text |-> "No relevant information found in contexts"]]
        ELSE [answer |-> _combine_answer_parts(got.answer_parts, got.citations),
              reason |-> [text |-> "Answer generated from {len(citations)} sources with top score {top_score:.3f}",
                          sources |-> Len(got.citations),
                          top_score |-> Fmt3(top_score)]]

\* generate_answer: (answer, reason); a reason is its text with the values that
\* fill its placeholders.  The _default_score variant has no check for an empty
\* list and takes 0 as its top score.
generate_answer_default_score(query, ctxs, threshold) ==
    IF ctxs = <<>>
    THEN [answer |-> None, reason |-> BelowThresholdReason(Zero, threshold)]
    ELSE AnswerFrom(query, ctxs, threshold)
generate_answer(query, ctxs, threshold) ==
    IF ctxs = <<>>
    THEN [answer |-> None, reason |-> [text |-> "No relevant contexts found"]]
    ELSE AnswerFrom(query, ctxs, threshold)

\* format_response
format_response(query, ctxs, reranker_used, threshold) ==
    LET generated == generate_answer(query, ctxs, threshold)
    IN  [answer |-> generated.answer,
         contexts |-> [i \in DOMAIN ctxs |->
                          [text |-> Chunk(ctxs[i].id).sentences,
                           score |-> ScoreOf(ctxs[i]),
                           source |-> Chunk(ctxs[i].id).title]],
         reranker_used |-> reranker_used,
         reason |-> generated.reason,
         query |-> query]

-----------------------------------------------------------------------------
(* vector_search.py: the semantic retriever, an oracle *)

\* similarity scores the retriever may report
VScores == {Rat(2, 5), Rat(69, 100), Rat(7, 10), Rat(9, 10)}

\* ids of the chunks the retriever may return: the chunks table may have grown
\* since the BM25 index was built
CandIds == 1..(MaxCorpus + 1)

\* result lists of a given length: FAISS returns distinct chunks by
\* non-increasing similarity
RECURSIVE SearchListsOfLen(_)
SearchListsOfLen(l) ==
    IF l = 0 THEN {<<>>}
    ELSE UNION {
           {Append(s, [id |-> i, vector_score |-> v]) :
               i \in CandIds \ {s[j].id : j \in DOMAIN s},
               v \in {w \in VScores : s = <<>> \/ RLeq(w, s[Len(s)].vector_score)}}
           : s \in SearchListsOfLen(l - 1)}

SearchLists == UNION {SearchListsOfLen(l) : l \in 0..MaxCands}

\* vector_search.search(query, k): at most k results
search(k) == {s \in SearchLists : Len(s) <= k}

-----------------------------------------------------------------------------
(* main.py: the /ask handler *)

\* values of request.k and request.mode
RequestKs == {0, 60}
RequestModes == {"baseline", "Baseline", "reranked", "hybrid"}

\* str.lower() on a mode
Lower(m) == IF m = "Baseline" THEN "baseline" ELSE m

\* max(1, min(request.k, 50)); the _no_upper variant is max(1, request.k)
ClampK_no_upper(k) == IF k > 1 THEN k ELSE 1
ClampK(k) == LET m == IF k < 50 THEN k ELSE 50 IN IF m > 1 THEN m ELSE 1

\* raise HTTPException(status_code=400, ...) inside the try block: the handler's
\* "except Exception" catches it and raises HTTPException(status_code=500, ...)
Raised(status_code, detail) ==
    [status_code |-> 500,
     detail |-> "Internal server error: {str(e)}",
     e |-> [status_code |-> status_code, detail |-> detail]]

\* an exception that is not an HTTPException, caught the same way
Failed(e) ==
    [status_code |-> 500, detail |-> "Internal server error: {str(e)}", e |-> [error |-> e]]

\* return QueryResponse(**response)
Returned(body) == [status_code |-> 200, body |-> body]

NoCall ==
    /\ candidates' = <<>>
    /\ bm25_scores' = <<>>
    /\ reranked_results' = <<>>
    /\ contexts' = <<>>
    /\ search_k' = None
    /\ seen' = None

ask_question(q, rk, m) ==
    /\ pc = "idle"
    /\ request' = [q |-> q, k |-> rk, mode |-> m]
    /\ LET query == Strip(q)
           k == ClampK(rk)
           mode == Lower(m)
           self == [bm25 |-> bm25, chunk_ids |-> chunk_ids, corpus |-> corpus]
       IN  IF query = ""
           THEN /\ NoCall
                /\ response' = Raised(400, "Query cannot be empty")
                /\ pc' = "rejected"
           ELSE IF mode \notin {"baseline", "reranked"}
           THEN /\ NoCall
                /\ response' = Raised(400, "Mode must be 'baseline' or 'reranked'")
                /\ pc' = "rejected"
           ELSE IF mode = "baseline"
           THEN \E found \in search(k) :
                /\ candidates' = found
                /\ bm25_scores' = <<>>
                /\ reranked_results' = <<>>
                /\ contexts' = found
                /\ search_k' = k
                /\ seen' = None
                /\ response' = Returned(format_response(query, found, FALSE,
                                                        SIMILARITY_THRESHOLD))
                /\ pc' = "baseline"
           ELSE \E found \in search(CANDIDATE_K) :
                \E scores \in (IF found = <<>> \/ bm25 = None THEN {<<>>}
                               ELSE get_scores(bm25, QueryTokens(query))) :
                /\ candidates' = found
                /\ bm25_scores' = scores
                /\ search_k' = CANDIDATE_K
                /\ seen' = Seen(self, found)
                /\ IF RerankRaises(self, scores, found)
                   THEN /\ reranked_results' = <<>>
                        /\ contexts' = <<>>
                        /\ response' = Failed("IndexError")
                        /\ pc' = "failed"
                   ELSE /\ reranked_results' = IF found = <<>> THEN <<>>
                                               ELSE rerank(self, alpha, scores, found)
                        /\ contexts' = search_with_reranking(self, alpha, scores, found, k)
                        /\ response' = Returned(format_response(query, contexts', TRUE,
                                                                SIMILARITY_THRESHOLD))
                        /\ pc' = "reranked"
    /\ UNCHANGED <<alpha, bm25, chunk_ids, corpus, build, split>>

\* the response has gone out; the service waits for the next request
Reply ==
    /\ pc # "idle"
    /\ pc' = "idle"
    /\ request' = [q |-> "", k |-> 0, mode |-> ""]
    /\ NoCall
    /\ response' = None
    /\ UNCHANGED <<alpha, bm25, chunk_ids, corpus, build, split>>

\* reranker.py run as a script: search_with_reranking(test_query, vector_search, k=5)
\* on a freshly built HybridReranker
reranker_main ==
    /\ pc = "idle"
    /\ request' = [q |-> "What is ISO 13849-1 safety standard?", k |-> 5, mode |-> "reranked"]
    /\ LET self == [bm25 |-> bm25, chunk_ids |-> chunk_ids, corpus |-> corpus]
           k == request'.k
       IN  \E found \in search(CANDIDATE_K) :
           \E scores \in (IF found = <<>> \/ bm25 = None THEN {<<>>}
                          ELSE get_scores(bm25, QueryTokens(request'.q))) :
           /\ candidates' = found
           /\ bm25_scores' = scores
           /\ search_k' = CANDIDATE_K
           /\ seen' = Seen(self, found)
           /\ IF RerankRaises(self, scores, found)
              THEN /\ reranked_results' = <<>>
                   /\ contexts' = <<>>
                   /\ pc' = "failed"
              ELSE /\ reranked_results' = IF found = <<>> THEN <<>>
                                          ELSE rerank(self, alpha, scores, found)
                   /\ contexts' = search_with_reranking(self, alpha, scores, found, k)
                   /\ pc' = "script"
    /\ response' = None
    /\ UNCHANGED <<alpha, bm25, chunk_ids, corpus, build, split>>

-----------------------------------------------------------------------------
(* answer_generator.py run as a script *)

\* ids of the chunks a list of test contexts may hold
ContextIds == 1..MaxContexts

\* lists of test contexts of a given length: like the two of the script they
\* carry a semantic score only, hold a chunk once and come best first
RECURSIVE TestContextsOfLen(_)
TestContextsOfLen(l) ==
    IF l = 0 THEN {<<>>}
    ELSE UNION {
           {Append(s, [id |-> i, vector_score |-> v]) :
               i \in ContextIds \ {s[j].id : j \in DOMAIN s},
               v \in {w \in VScores : s = <<>> \/ RLeq(w, s[Len(s)].vector_score)}}
           : s \in TestContextsOfLen(l - 1)}

TestContexts == UNION {TestContextsOfLen(l) : l \in 0..MaxContexts}

\* questions the script may be run with
TestQueries == {"What is ISO 13849-1?", "???"}

\* generator.format_response(test_query, test_contexts, reranker_used=False)
answer_generator_main(test_query, test_contexts) ==
    /\ pc = "idle"
    /\ request' = [q |-> test_query, k |-> 0, mode |-> ""]
    /\ candidates' = <<>>
    /\ bm25_scores' = <<>>
    /\ reranked_results' = <<>>
    /\ contexts' = test_contexts
    /\ search_k' = None
    /\ seen' = None
    /\ response' = format_response(test_query, test_contexts, FALSE, SIMILARITY_THRESHOLD)
    /\ pc' = "generator"
    /\ UNCHANGED <<alpha, bm25, chunk_ids, corpus, build, split>>

-----------------------------------------------------------------------------
(* The service as configured: main.py builds one HybridReranker at import *)

Init ==
    /\ alpha = ALPHA
    /\ \E n \in 0..MaxCorpus :
          LET self == HybridReranker(Chunks(n))
          IN  /\ bm25 = self.bm25
              /\ chunk_ids = self.chunk_ids
              /\ corpus = self.corpus
              /\ build = Returned_build(Chunks(n), 1)
    /\ search_k = None
    /\ seen = None
    /\ split = None
    /\ pc = "idle"
    /\ request = [q |-> "", k |-> 0, mode |-> ""]
    /\ candidates = <<>>
    /\ bm25_scores = <<>>
    /\ reranked_results = <<>>
    /\ contexts = <<>>
    /\ response = None

Next ==
    \/ \E q \in Questions, rk \in RequestKs, m \in RequestModes : ask_question(q, rk, m)
    \/ Reply

Spec == Init /\ [][Next]_vars

\* The reranker under each fusion weight
InitFusion ==
    /\ alpha \in AlphaValues
    /\ \E n \in 0..MaxCorpus :
          LET self == HybridReranker(Chunks(n))
          IN  /\ bm25 = self.bm25
              /\ chunk_ids = self.chunk_ids
              /\ corpus = self.corpus
              /\ build = Returned_build(Chunks(n), 1)
    /\ search_k = None
    /\ seen = None
    /\ split = None
    /\ pc = "idle"
    /\ request = [q |-> "", k |-> 0, mode |-> ""]
    /\ candidates = <<>>
    /\ bm25_scores = <<>>
    /\ reranked_results = <<>>
    /\ contexts = <<>>
    /\ response = None

NextFusion ==
    \/ reranker_main
    \/ Reply

SpecFusion == InitFusion /\ [][NextFusion]_vars

\* The answer generator on its own: no reranker is built
InitAnswer ==
    /\ alpha = ALPHA
    /\ bm25 = None
    /\ chunk_ids = <<>>
    /\ corpus = <<>>
    /\ build = Returned_build(<<>>, 0)
    /\ search_k = None
    /\ seen = None
    /\ split = None
    /\ pc = "idle"
    /\ request = [q |-> "", k |-> 0, mode |-> ""]
    /\ candidates = <<>>
    /\ bm25_scores = <<>>
    /\ reranked_results = <<>>
    /\ contexts = <<>>
    /\ response = None

NextAnswer ==
    \/ \E test_query \in TestQueries, test_contexts \in TestContexts :
          answer_generator_main(test_query, test_contexts)
    \/ Reply

SpecAnswer == InitAnswer /\ [][NextAnswer]_vars

-----------------------------------------------------------------------------
(* The index rebuilt while the reranker is in use: _build_bm25_index called   *)
(* again on the reranker by one thread, search_with_reranking run by another. *)
(* The code takes no lock, so the threads interleave between the statements   *)
(* that read or write self.bm25, self.chunk_ids and self.corpus.              *)

\* lines 20-29: the rows are read; pdf_processor.store_chunks only inserts, so
\* the table holds at least the rows of the build before.  An empty table
\* makes the call return at once.
build_fetch ==
    /\ build.pc = "returned"
    /\ build.calls < MaxBuilds
    /\ \E n \in Len(build.chunks)..MaxCorpus :
          LET chunks == Chunks(n)
          IN  build' = IF chunks = <<>> THEN Returned_build(chunks, build.calls + 1)
                       ELSE [pc |-> "loop", chunks |-> chunks, i |-> 0,
                             calls |-> build.calls + 1]
    /\ UNCHANGED <<alpha, bm25, chunk_ids, corpus, pc, request, candidates,
                   bm25_scores, reranked_results, contexts, response, search_k, seen,
                   split>>

\* lines 33-36: one round of the loop, self.chunk_ids.append(chunk_id)
build_append ==
    /\ build.pc = "loop"
    /\ build.i < Len(build.chunks)
    /\ chunk_ids' = Append(chunk_ids, build.chunks[build.i + 1])
    /\ build' = [build EXCEPT !.i = build.i + 1]
    /\ UNCHANGED <<alpha, bm25, corpus, pc, request, candidates,
                   bm25_scores, reranked_results, contexts, response, search_k, seen,
                   split>>

\* line 38: self.corpus = [chunk[1] for chunk in chunks]
build_corpus ==
    /\ build.pc = "loop"
    /\ build.i = Len(build.chunks)
    /\ corpus' = build.chunks
    /\ build' = [build EXCEPT !.pc = "corpus"]
    /\ UNCHANGED <<alpha, bm25, chunk_ids, pc, request, candidates,
                   bm25_scores, reranked_results, contexts, response, search_k, seen,
                   split>>

\* lines 39-41: self.bm25 = BM25Okapi(tokenized_corpus), and the call returns
build_bm25 ==
    /\ build.pc = "corpus"
    /\ bm25' = [corpus_size |-> Len(build.chunks), docs |-> build.chunks]
    /\ build' = Returned_build(build.chunks, build.calls)
    /\ UNCHANGED <<alpha, chunk_ids, corpus, pc, request, candidates,
                   bm25_scores, reranked_results, contexts, response, search_k, seen,
                   split>>

\* search_with_reranking(test_query, vector_search, k=5) up to line 69 of
\* rerank: the candidates are fetched, self.bm25 is read and scores the query
rerank_scores ==
    /\ pc = "idle"
    /\ request' = [q |-> "What is ISO 13849-1 safety standard?", k |-> 5, mode |-> "reranked"]
    /\ search_k' = CANDIDATE_K
    /\ \E found \in search(CANDIDATE_K) :
          /\ candidates' = found
          /\ IF found = <<>> \/ bm25 = None
             THEN /\ bm25_scores' = <<>>
                  /\ seen' = IF found = <<>> THEN None ELSE [bm25 |-> None]
                  /\ reranked_results' = found
                  /\ contexts' = Take(found, request'.k)
                  /\ pc' = "script"
             ELSE \E scores \in get_scores(bm25, QueryTokens(request'.q)) :
                  /\ bm25_scores' = scores
                  /\ seen' = [bm25 |-> bm25]
                  /\ reranked_results' = <<>>
                  /\ contexts' = <<>>
                  /\ pc' = "scored"
    /\ response' = None
    /\ UNCHANGED <<alpha, bm25, chunk_ids, corpus, build, split>>

\* lines 71-101 of rerank and the slice of search_with_reranking: self.chunk_ids
\* is read to pair the ids with the scores
rerank_fuses ==
    /\ pc = "scored"
    /\ seen' = [bm25 |-> seen.bm25, chunk_ids |-> chunk_ids]
    /\ LET self == [bm25 |-> seen.bm25, chunk_ids |-> chunk_ids, corpus |-> corpus]
       IN  IF RerankRaises(self, bm25_scores, candidates)
           THEN /\ reranked_results' = <<>>
                /\ contexts' = <<>>
                /\ pc' = "failed"
           ELSE /\ reranked_results' = rerank(self, alpha, bm25_scores, candidates)
                /\ contexts' = Take(reranked_results', request.k)
                /\ pc' = "script"
    /\ UNCHANGED <<alpha, bm25, chunk_ids, corpus, request, candidates, bm25_scores,
                   response, search_k, build, split>>

\* the call has returned or raised
rerank_returns ==
    /\ pc \in {"script", "failed"}
    /\ pc' = "idle"
    /\ request' = [q |-> "", k |-> 0, mode |-> ""]
    /\ NoCall
    /\ response' = None
    /\ UNCHANGED <<alpha, bm25, chunk_ids, corpus, build, split>>

NextRebuild ==
    \/ build_fetch
    \/ build_append
    \/ build_corpus
    \/ build_bm25
    \/ rerank_scores
    \/ rerank_fuses
    \/ rerank_returns

SpecRebuild == Init /\ [][NextRebuild]_vars

-----------------------------------------------------------------------------
(* The service over a corpus about as large as the candidate pool.  The       *)
(* retriever and BM25 are oracles; here their answers come from a few         *)
(* profiles instead of all lists, so that lists of 30 and more fit.           *)

\* similarity profiles: the first cut results score hi, the others lo
Rankings ==
    {r \in [hi : VScores, lo : VScores, cut : {1, 30}] : RLeq(r.lo, r.hi)}

\* vector_search.search(query, k) over an index of n vectors (none when no
\* index can be loaded): min(k, n) results, best first
search_pool(n, k, ranking) ==
    [i \in 1..(IF k < n THEN k ELSE n) |->
        [id |-> n + 1 - i,
         vector_score |-> IF i <= ranking.cut THEN ranking.hi ELSE ranking.lo]]

\* self.bm25.get_scores(query_tokens): the scores 0.0, 0.2, 0.8 in turn over
\* the documents, starting at one of them
get_scores_pool(index, shift) ==
    [d \in 1..index.corpus_size |-> <<Zero, Rat(1, 5), Rat(4, 5)>>[((d + shift) % 3) + 1]]

\* vector_search.search(query, k=CANDIDATE_K) in search_with_reranking; the
\* _requested variant passes the caller's k on
PoolSize_requested(k) == k
PoolSize(k) == CANDIDATE_K

\* values of request.k
PoolRequestKs == {5, 30, 31, 60}

\* ask_question for a well-formed request
ask_question_pool(rk, m, n, ranking, shift) ==
    /\ pc = "idle"
    /\ request' = [q |-> "What is ISO 13849-1?", k |-> rk, mode |-> m]
    /\ LET query == Strip(request'.q)
           k == ClampK(rk)
           mode == Lower(m)
           self == [bm25 |-> bm25, chunk_ids |-> chunk_ids, corpus |-> corpus]
       IN  IF mode = "baseline"
           THEN LET found == search_pool(n, k, ranking)
                IN  /\ candidates' = found
                    /\ bm25_scores' = <<>>
                    /\ reranked_results' = <<>>
                    /\ contexts' = found
                    /\ search_k' = k
                    /\ seen' = None
                    /\ response' = Returned(format_response(query, found, FALSE,
                                                            SIMILARITY_THRESHOLD))
                    /\ pc' = "baseline"
           ELSE LET found == search_pool(n, PoolSize(k), ranking)
                    scores == IF found = <<>> \/ bm25 = None THEN <<>>
                              ELSE get_scores_pool(bm25, shift)
                IN  /\ candidates' = found
                    /\ bm25_scores' = scores
                    /\ search_k' = PoolSize(k)
                    /\ seen' = Seen(self, found)
                    /\ reranked_results' = IF found = <<>> THEN <<>>
                                           ELSE rerank(self, alpha, scores, found)
                    /\ contexts' = search_with_reranking(self, alpha, scores, found, k)
                    /\ response' = Returned(format_response(query, contexts', TRUE,
                                                            SIMILARITY_THRESHOLD))
                    /\ pc' = "reranked"
    /\ UNCHANGED <<alpha, bm25, chunk_ids, corpus, build, split>>

InitPool ==
    /\ alpha = ALPHA
    /\ \E n \in (MaxPool - 3)..MaxPool :
          LET self == HybridReranker(Chunks(n))
          IN  /\ bm25 = self.bm25
              /\ chunk_ids = self.chunk_ids
              /\ corpus = self.corpus
              /\ build = Returned_build(Chunks(n), 1)
    /\ search_k = None
    /\ seen = None
    /\ split = None
    /\ pc = "idle"
    /\ request = [q |-> "", k |-> 0, mode |-> ""]
    /\ candidates = <<>>
    /\ bm25_scores = <<>>
    /\ reranked_results = <<>>
    /\ contexts = <<>>
    /\ response = None

NextPool ==
    \/ \E rk \in PoolRequestKs, m \in {"baseline", "reranked"},
          n \in {0, Len(corpus)}, ranking \in Rankings, shift \in 0..2 :
          ask_question_pool(rk, m, n, ranking, shift)
    \/ Reply

SpecPool == InitPool /\ [][NextPool]_vars

-----------------------------------------------------------------------------
(* PDFProcessor.split_into_chunks (src/pdf_processor.py).  A word of the      *)
(* text is known by its place in text.split() and by its kind: "stop" if it   *)
(* ends with '.', '!' or '?', "symbol" if clean_text leaves nothing of it     *)
(* (a bullet, a dash that is not '-'), "plain" otherwise.                     *)

CHUNK_SIZE == 300
CHUNK_OVERLAP == 50

\* every how many words a sentence ends (beyond MaxWords: never)
SentenceLengths == {7, 130, 520, MaxWords + 1}

\* numbers of words of the texts
TextLengths ==
    {0, 1, CHUNK_SIZE - 1, CHUNK_SIZE, CHUNK_SIZE + 1,
     2 * CHUNK_SIZE - CHUNK_OVERLAP, 2 * CHUNK_SIZE - CHUNK_OVERLAP + 1, MaxWords}

\* the texts: n words, a sentence end every so many words, and, if symbols,
\* a symbol as every third word
Texts == [n : TextLengths, every : SentenceLengths, symbols : BOOLEAN]

\* words = text.split()
Words(text) ==
    [p \in 1..text.n |->
        [at |-> p - 1,
         kind |-> IF p % text.every = 0 THEN "stop"
                  ELSE IF text.symbols /\ p % 3 = 2 THEN "symbol"
                  ELSE "plain"]]

\* words[a:b]
Slice(words, a, b) == SubSeq(words, a + 1, IF b < Len(words) THEN b ELSE Len(words))

\* clean_text of the joined words: what is left of them, in order
clean_text(words) == SelectSeq(words, LAMBDA w : w.kind # "symbol")

\* the for loop of split_into_chunks: the last j of
\* range(len(chunk_words) - 1, max(0, len(chunk_words) - 50), -1) whose word
\* ends a sentence, -1 if the loop runs out (its else branch)
SentenceEnd(chunk_words) ==
    LET len == Len(chunk_words)
        low == IF len - 50 > 0 THEN len - 50 ELSE 0
        ends == {j \in (low + 1)..(len - 1) : chunk_words[j + 1].kind = "stop"}
    IN  IF ends = {} THEN -1 ELSE CHOOSE j \in ends : \A e \in ends : e <= j

\* the step of the cursor when no sentence ends in the window; the _beyond
\* variant steps over the overlap instead of back
NoBoundaryStep_beyond == CHUNK_SIZE + CHUNK_OVERLAP
NoBoundaryStep == CHUNK_SIZE - CHUNK_OVERLAP

\* everything but split
service_vars ==
    <<alpha, bm25, chunk_ids, corpus, pc, request, candidates, bm25_scores,
      reranked_results, contexts, response, search_k, seen, build>>

\* one iteration of the while loop (lines 91-118); cursors keeps the values i
\* had at the start of the iterations so far
split_iterate ==
    /\ split # None
    /\ split.pc = "loop"
    /\ split.i < Len(split.words)
    /\ LET words == split.words
           i == split.i
           chunk_words == Slice(words, i, i + CHUNK_SIZE)
           more == i + CHUNK_SIZE < Len(words)
           j == IF more THEN SentenceEnd(chunk_words) ELSE -1
           chunk_text == IF j # -1 THEN Slice(chunk_words, 0, j + 1) ELSE chunk_words
           step == IF more
                   THEN IF j # -1 THEN j + 1 ELSE NoBoundaryStep
                   ELSE CHUNK_SIZE
           chunk == [chunk_text |-> clean_text(chunk_text),
                     chunk_index |-> split.chunk_index,
                     word_count |-> Len(chunk_text)]
       IN  split' = [split EXCEPT
                        !.i = i + step,
                        !.chunks = IF chunk_text # <<>> THEN Append(@, chunk) ELSE @,
                        !.chunk_index = IF chunk_text # <<>> THEN @ + 1 ELSE @,
                        !.cursors = Append(@, i)]
    /\ UNCHANGED service_vars

\* the while loop ends: return chunks
split_return ==
    /\ split # None
    /\ split.pc = "loop"
    /\ split.i >= Len(split.words)
    /\ split' = [split EXCEPT !.pc = "returned"]
    /\ UNCHANGED service_vars

\* split_into_chunks(text, source_file) has been called: lines 86-90
InitChunks ==
    /\ alpha = ALPHA
    /\ bm25 = None
    /\ chunk_ids = <<>>
    /\ corpus = <<>>
    /\ build = Returned_build(<<>>, 0)
    /\ search_k = None
    /\ seen = None
    /\ pc = "idle"
    /\ request = [q |-> "", k |-> 0, mode |-> ""]
    /\ candidates = <<>>
    /\ bm25_scores = <<>>
    /\ reranked_results = <<>>
    /\ contexts = <<>>
    /\ response = None
    /\ \E text \in Texts :
          split = [pc |-> "loop", words |-> Words(text), i |-> 0, chunks |-> <<>>,
                   chunk_index |-> 0, cursors |-> <<>>]

NextChunks ==
    \/ split_iterate
    \/ split_return

\* the call runs on one thread, which goes on as long as it can
SpecChunks == InitChunks /\ [][NextChunks]_vars /\ WF_vars(NextChunks)

-----------------------------------------------------------------------------
(* Properties *)

\* generate_answer has run on contexts and its result is in the response
Generated == pc \in {"baseline", "reranked"}

\* the fused score of the first context if it carries one, else its semantic score
TopScore ==
    IF "hybrid_score" \in DOMAIN contexts[1] THEN contexts[1].hybrid_score
    ELSE contexts[1].vector_score

GateText ==
    "Top result score ({top_score:.3f}) below confidence threshold ({self.threshold})"

AtGate == response.body.answer = None /\ response.body.reason.text = GateText

\* C1: for a non-empty list, generate_answer abstains at the confidence gate
\* exactly when the top score (fused score of the first candidate if present,
\* else its semantic score) is strictly below THRESHOLD; a top score equal to
\* THRESHOLD passes the gate.
C1_ConfidenceGate ==
    (Generated /\ contexts # <<>>) =>
        /\ AtGate <=> RLess(TopScore, SIMILARITY_THRESHOLD)
        /\ TopScore = SIMILARITY_THRESHOLD => ~AtGate

\* a fused top score exactly at the threshold, differing from the semantic
\* score of that candidate, is answered
C1_Witness ==
    /\ pc = "reranked"
    /\ contexts # <<>>
    /\ "hybrid_score" \in DOMAIN contexts[1]
    /\ contexts[1].hybrid_score = SIMILARITY_THRESHOLD
    /\ contexts[1].vector_score # SIMILARITY_THRESHOLD
    /\ response.body.answer # None

\* some candidate among the first three is not skipped and yields a sentence
SomeExaminedYields ==
    \E i \in DOMAIN contexts :
        /\ i <= 3
        /\ LET c == contexts[i]
               score == IF "hybrid_score" \in DOMAIN c THEN c.hybrid_score
                        ELSE c.vector_score
           IN  /\ ~RLess(score, Rat(49, 100))
               /\ _extract_relevant_sentences(Strip(request.q),
                                              Chunk(c.id).sentences) # <<>>

\* C2: every call of generate_answer ends in one of four outcomes decided in a
\* fixed order (empty list, gate failure, nothing extracted, answered); the
\* answer is non-null iff the list is non-empty, the top score is >= THRESHOLD
\* and an examined candidate yielded a sentence; the reason is never empty.
C2_FourOutcomes ==
    Generated =>
        LET b == response.body
            passes == contexts # <<>> /\ ~RLess(TopScore, SIMILARITY_THRESHOLD)
        IN  /\ (b.answer # None) <=> (passes /\ SomeExaminedYields)
            /\ b.reason.text # ""
            /\ b.reason.text =
                  IF contexts = <<>> THEN "No relevant contexts found"
                  ELSE IF ~passes THEN GateText
                  ELSE IF ~SomeExaminedYields
                       THEN "No relevant information found in contexts"
                  ELSE "Answer generated from {len(citations)} sources with top score {top_score:.3f}"

\* an answer whose only sentences come from a second candidate that is below
\* the gate but above the supporting bar
C2_Witness ==
    /\ Generated
    /\ Len(contexts) >= 2
    /\ response.body.answer # None
    /\ _extract_relevant_sentences(Strip(request.q), Chunk(contexts[1].id).sentences) = <<>>
    /\ RLess(contexts[2].vector_score, SIMILARITY_THRESHOLD)
    /\ "hybrid_score" \notin DOMAIN contexts[2]

\* C3 as stated: every abstention, whichever of the three it is, carries in its
\* reason the triggering top score and the threshold.
C3_EveryAbstentionCarriesScore ==
    (Generated /\ response.body.answer = None) =>
        {"top_score", "threshold"} \subseteq DOMAIN response.body.reason

\* C3 amended: an abstention at the confidence gate carries the top score (to
\* three decimals) and the threshold; the two other abstentions carry a fixed
\* text without either.
C3_GateAbstentionCarriesScore ==
    (Generated /\ response.body.answer = None) =>
        LET reason == response.body.reason
        IN  IF contexts # <<>> /\ RLess(TopScore, SIMILARITY_THRESHOLD)
            THEN /\ {"top_score", "threshold"} \subseteq DOMAIN reason
                 /\ reason.threshold = SIMILARITY_THRESHOLD
                 /\ Abs(2 * 1000 * TopScore.n - 2 * reason.top_score * TopScore.d)
                        <= TopScore.d
            ELSE /\ DOMAIN reason = {"text"}
                 /\ reason.text \in {"No relevant contexts found",
                                     "No relevant information found in contexts"}

\* an abstention at the gate on a fused top score
C3_Witness ==
    /\ pc = "reranked"
    /\ contexts # <<>>
    /\ "hybrid_score" \in DOMAIN contexts[1]
    /\ response.body.answer = None
    /\ "top_score" \in DOMAIN response.body.reason
    /\ response.body.reason.top_score = 600

\* C4: when the retriever yields no candidates, in baseline and in hybrid mode
\* and for any query, the response is a 200 with a null answer, the reason
\* "No relevant contexts found" and no contexts.
C4_NoCandidates ==
    (pc \in {"baseline", "reranked", "failed"} /\ candidates = <<>>) =>
        /\ response.status_code = 200
        /\ response.body.answer = None
        /\ response.body.reason.text = "No relevant contexts found"
        /\ response.body.contexts = <<>>

\* hybrid mode over an empty corpus
C4_Witness ==
    /\ pc = "reranked"
    /\ bm25 = None
    /\ candidates = <<>>
    /\ response.status_code = 200

InUnit(x) == RLeq(Zero, x) /\ RLeq(x, One)

\* C5: the normalized values of a non-empty score vector are as many as the
\* scores and lie in [0,1]; the minimum maps to 0 and the maximum to 1 when
\* they differ, and every value is exactly 1 when all scores are equal.
C5_NormalizationBounds ==
    \A i \in DOMAIN reranked_results :
        LET r == reranked_results[i]
            vs == {candidates[j].vector_score : j \in DOMAIN candidates}
            ls == {reranked_results[j].bm25_score : j \in DOMAIN reranked_results}
        IN  "normalized_vector_score" \in DOMAIN r =>
            /\ Len(reranked_results) = Len(candidates)
            /\ InUnit(r.normalized_vector_score)
            /\ InUnit(r.normalized_bm25_score)
            /\ IF Cardinality(vs) = 1 THEN r.normalized_vector_score = One
               ELSE /\ (\A v \in vs : RLeq(r.vector_score, v))
                        => r.normalized_vector_score = Zero
                    /\ (\A v \in vs : RLeq(v, r.vector_score))
                        => r.normalized_vector_score = One
            /\ IF Cardinality(ls) = 1 THEN r.normalized_bm25_score = One
               ELSE /\ (\A l \in ls : RLeq(r.bm25_score, l))
                        => r.normalized_bm25_score = Zero
                    /\ (\A l \in ls : RLeq(l, r.bm25_score))
                        => r.normalized_bm25_score = One

\* tied semantic scores (all normalized to 1) beside lexical scores that differ
C5_Witness ==
    /\ Len(reranked_results) >= 2
    /\ \A i \in DOMAIN reranked_results :
          /\ "normalized_vector_score" \in DOMAIN reranked_results[i]
          /\ reranked_results[i].normalized_vector_score = One
          /\ reranked_results[i].vector_score = Rat(9, 10)
    /\ \E i \in DOMAIN reranked_results : reranked_results[i].normalized_bm25_score = Zero
    /\ \E i \in DOMAIN reranked_results : reranked_results[i].normalized_bm25_score = One

\* the lexical score the index holds for a passage id, 0 when it holds none
LexOf(id) ==
    IF \E i \in DOMAIN chunk_ids : chunk_ids[i] = id /\ i \in DOMAIN bm25_scores
    THEN bm25_scores[CHOOSE i \in DOMAIN chunk_ids : chunk_ids[i] = id]
    ELSE Zero

\* (x - min S) / (max S - min S), 1 when max S = min S
NormOver(x, S) ==
    LET mn == CHOOSE m \in S : \A y \in S : RLeq(m, y)
        mx == CHOOSE m \in S : \A y \in S : RLeq(y, m)
    IN  IF mn = mx THEN One ELSE RDiv(RSub(x, mn), RSub(mx, mn))

\* C6: the fused score of each candidate is ALPHA * normalized semantic +
\* (1 - ALPHA) * normalized lexical, each min-max normalized over the candidates
\* being fused only; semantic (0.9, 0.9), lexical (0.2, 0.8), ALPHA = 0.5 gives
\* fused (0.5, 1.0) and the second candidate first.
C6_FusionFormula ==
    /\ \A i \in DOMAIN reranked_results :
          LET r == reranked_results[i]
              vs == {candidates[j].vector_score : j \in DOMAIN candidates}
              ls == {LexOf(candidates[j].id) : j \in DOMAIN candidates}
          IN  "hybrid_score" \in DOMAIN r =>
                 r.hybrid_score =
                    RAdd(RMul(alpha, NormOver(r.vector_score, vs)),
                         RMul(RSub(One, alpha), NormOver(LexOf(r.id), ls)))
    /\ ( /\ pc = "script"
         /\ alpha = Rat(1, 2)
         /\ Len(candidates) = 2
         /\ candidates[1].vector_score = Rat(9, 10)
         /\ candidates[2].vector_score = Rat(9, 10)
         /\ bm25 # None
         /\ LexOf(candidates[1].id) = Rat(1, 5)
         /\ LexOf(candidates[2].id) = Rat(4, 5) )
       => /\ reranked_results[1].id = candidates[2].id
          /\ reranked_results[1].hybrid_score = One
          /\ reranked_results[2].id = candidates[1].id
          /\ reranked_results[2].hybrid_score = Rat(1, 2)

\* the example of the claim
C6_Witness ==
    /\ pc = "script"
    /\ alpha = Rat(1, 2)
    /\ Len(candidates) = 2
    /\ candidates[1].vector_score = Rat(9, 10)
    /\ candidates[2].vector_score = Rat(9, 10)
    /\ bm25 # None
    /\ LexOf(candidates[1].id) = Rat(1, 5)
    /\ LexOf(candidates[2].id) = Rat(4, 5)
    /\ reranked_results[1].hybrid_score = One
    /\ reranked_results[2].hybrid_score = Rat(1, 2)

\* C7 as stated: for every non-empty candidate list passed to rerank, whether
\* or not the lexical index holds any passage, every candidate of the output
\* carries its raw semantic and lexical scores, both normalized values and the
\* fused score.
C7_OutputRetainsAllScores ==
    (pc = "reranked" /\ candidates # <<>>) =>
        /\ Len(reranked_results) = Len(candidates)
        /\ \A i \in DOMAIN reranked_results :
              {"vector_score", "bm25_score", "normalized_vector_score",
               "normalized_bm25_score", "hybrid_score"}
                  \subseteq DOMAIN reranked_results[i]

\* position of a passage id in the list the retriever returned
PosOf(id) == CHOOSE i \in DOMAIN candidates : candidates[i].id = id

\* C8: the list returned by rerank is ordered by fused score, non-increasing,
\* and candidates with equal fused scores keep their relative input order.
C8_SortedStable ==
    \A i, j \in DOMAIN reranked_results :
        LET a == reranked_results[i]
            b == reranked_results[j]
        IN  (i < j /\ "hybrid_score" \in DOMAIN a /\ "hybrid_score" \in DOMAIN b) =>
                /\ RLeq(b.hybrid_score, a.hybrid_score)
                /\ a.hybrid_score = b.hybrid_score => PosOf(a.id) < PosOf(b.id)

\* a fused list of three with a tie and a reordering
C8_Witness ==
    /\ Len(reranked_results) = 3
    /\ "hybrid_score" \in DOMAIN reranked_results[1]
    /\ reranked_results[1].id # candidates[1].id
    /\ \E i \in 1..2 : reranked_results[i].hybrid_score = reranked_results[i + 1].hybrid_score
    /\ reranked_results[1].hybrid_score # reranked_results[3].hybrid_score

\* the output holds the candidates of the input, each once
SameCandidates ==
    /\ Len(reranked_results) = Len(candidates)
    /\ {reranked_results[i].id : i \in DOMAIN reranked_results}
          = {candidates[i].id : i \in DOMAIN candidates}

\* C9: with ALPHA = 1 the order produced by rerank is the order by semantic
\* score alone (descending, ties in input order), with ALPHA = 0 the order by
\* lexical score alone.
C9_FusionWeighting ==
    pc = "script" =>
        /\ alpha = One =>
              /\ SameCandidates
              /\ \A i, j \in DOMAIN reranked_results :
                    LET a == reranked_results[i]
                        b == reranked_results[j]
                    IN  i < j =>
                           \/ RLess(b.vector_score, a.vector_score)
                           \/ /\ b.vector_score = a.vector_score
                              /\ PosOf(a.id) < PosOf(b.id)
        /\ alpha = Zero =>
              /\ SameCandidates
              /\ \A i, j \in DOMAIN reranked_results :
                    LET a == reranked_results[i]
                        b == reranked_results[j]
                    IN  i < j =>
                           \/ RLess(LexOf(b.id), LexOf(a.id))
                           \/ /\ LexOf(b.id) = LexOf(a.id)
                              /\ PosOf(a.id) < PosOf(b.id)

\* ALPHA = 0 puts the candidate with the best lexical score first although
\* its semantic score is the lowest
C9_Witness ==
    /\ pc = "script"
    /\ alpha = Zero
    /\ Len(candidates) = 3
    /\ reranked_results[1].id = candidates[3].id
    /\ RLess(candidates[3].vector_score, candidates[1].vector_score)
    /\ reranked_results[2].id = candidates[1].id
    /\ LexOf(candidates[1].id) = LexOf(candidates[2].id)

\* C10: rerank raises no error on any candidate list, returns an empty list
\* unchanged, and gives a candidate whose passage id is not in the lexical
\* index the lexical score 0.0 and a place in the ranking.
C10_FusionTotal ==
    /\ pc # "failed"
    /\ (pc = "reranked" /\ candidates = <<>>) => reranked_results = candidates
    /\ pc = "reranked" =>
          /\ Len(reranked_results) = Len(candidates)
          /\ \A i \in DOMAIN candidates :
                \E j \in DOMAIN reranked_results :
                    LET r == reranked_results[j]
                    IN  /\ r.id = candidates[i].id
                        /\ (r.id \notin Range(chunk_ids) /\ "bm25_score" \in DOMAIN r)
                              => r.bm25_score = Zero

\* a candidate absent from a built index is scored 0.0 and ranked above an
\* indexed candidate
C10_Witness ==
    /\ pc = "reranked"
    /\ bm25 # None
    /\ Len(reranked_results) >= 2
    /\ reranked_results[1].id \notin Range(chunk_ids)
    /\ reranked_results[1].bm25_score = Zero
    /\ reranked_results[2].id \in Range(chunk_ids)
    /\ reranked_results[2].bm25_score # Zero

-----------------------------------------------------------------------------
(* Properties of the answer generator *)

\* the score generate_answer reads from a context
ShownScore(c) == IF "hybrid_score" \in DOMAIN c THEN c.hybrid_score ELSE c.vector_score

\* overlap > 0 and more than 20 characters
Qualifies(query, sentence) ==
    /\ Range(QueryTokens(query)) \cap SentenceWords(sentence) # {}
    /\ SentenceLen(sentence) > 20

\* the sentences the passage of the i-th context yields for the question asked
Yield(i) == _extract_relevant_sentences(request.q, Chunk(contexts[i].id).sentences)

\* the positions, in list order, of the contexts that contribute: among the
\* first three, at or above 0.7 * THRESHOLD, yielding a sentence
Contributing ==
    SelectSeq([i \in 1..(IF Len(contexts) < 3 THEN Len(contexts) ELSE 3) |-> i],
              LAMBDA i : /\ ~RLess(ShownScore(contexts[i]), Rat(49, 100))
                         /\ Yield(i) # <<>>)

\* C11: in every non-null answer the citations are numbered [1], [2], ... in
\* the order their passages were found to contribute, each citation is of a
\* passage that contributed an extracted sentence of the answer, and no
\* passage is cited twice.
C11_CitationIntegrity ==
    (pc = "generator" /\ response.answer # None) =>
        LET sources == response.answer.sources
        IN  /\ Len(sources) = Len(Contributing)
            /\ sources # <<>>
            /\ \A j \in DOMAIN sources :
                  /\ sources[j].ref = j
                  /\ sources[j].source = Chunk(contexts[Contributing[j]].id).title
                  /\ \E part \in Range(Yield(Contributing[j])) :
                        part \in Range(response.answer.parts)
            /\ \A j, l \in DOMAIN sources :
                  j # l => contexts[Contributing[j]].id # contexts[Contributing[l]].id

\* three candidates of which the second yields nothing: the third is cited as
\* [2]
C11_Witness ==
    /\ pc = "generator"
    /\ Len(contexts) = 3
    /\ response.answer # None
    /\ Yield(2) = <<>>
    /\ Len(response.answer.sources) = 2
    /\ response.answer.sources[2].ref = 2
    /\ response.answer.sources[2].source = Chunk(contexts[3].id).title

\* the extracted sentences of the contributing passages, in the order found
RECURSIVE PartsOf(_)
PartsOf(positions) ==
    IF positions = <<>> THEN <<>>
    ELSE PartsOf(SubSeq(positions, 1, Len(positions) - 1))
            \o Yield(positions[Len(positions)])

FirstAt(parts, part) ==
    CHOOSE i \in DOMAIN parts :
        parts[i] = part /\ \A j \in DOMAIN parts : parts[j] = part => i <= j

\* C12: the deduplication of _combine_answer_parts keeps exactly one copy of
\* each extracted sentence, in the order of the first occurrences, and
\* applied to its own result it returns that result unchanged.
C12_DedupIdempotent ==
    (pc = "generator" /\ response.answer # None) =>
        LET found == PartsOf(Contributing)
            parts == response.answer.parts
        IN  /\ Range(parts) = Range(found)
            /\ \A i, j \in DOMAIN parts :
                  i < j => /\ parts[i] # parts[j]
                           /\ FirstAt(found, parts[i]) < FirstAt(found, parts[j])
            /\ UniqueParts(parts) = parts
            /\ UniqueParts(found) = parts

\* a sentence found in two passages, the second time after another sentence
C12_Witness ==
    /\ pc = "generator"
    /\ response.answer # None
    /\ PartsOf(Contributing)
          = <<"ISO 13849-1 is an international standard",
              "The performance level is what matters",
              "ISO 13849-1 is an international standard">>
    /\ response.answer.parts
          = <<"ISO 13849-1 is an international standard",
              "The performance level is what matters">>

\* C19: generate_answer takes sentences and citations from the first three
\* candidates only and from none of them whose score (fused if present, else
\* semantic) is below 0.7 * THRESHOLD; an answer has at most 3 citations and
\* at most 2 sentences per cited passage.
C19_SupportingEvidence ==
    pc = "generator" =>
        LET passes == contexts # <<>>
                      /\ ~RLess(ShownScore(contexts[1]), SIMILARITY_THRESHOLD)
            allowed == {i \in DOMAIN contexts :
                           i <= 3 /\ ~RLess(ShownScore(contexts[i]), Rat(49, 100))}
        IN  /\ (response.answer # None) <=> (passes /\ \E i \in allowed : Yield(i) # <<>>)
            /\ response.answer # None =>
                  /\ Range(response.answer.parts) = UNION {Range(Yield(i)) : i \in allowed}
                  /\ Len(response.answer.sources)
                        = Cardinality({i \in allowed : Yield(i) # <<>>})
                  /\ Len(response.answer.sources) <= 3
                  /\ Len(response.answer.parts) <= 2 * Len(response.answer.sources)
                  /\ response.reason.sources = Len(response.answer.sources)

\* a fourth candidate that scores as high as the first and would yield a
\* sentence of its own is left out of the answer
C19_Witness ==
    /\ pc = "generator"
    /\ Len(contexts) = 4
    /\ response.answer # None
    /\ contexts[4].vector_score = contexts[1].vector_score
    /\ \E part \in Range(Yield(4)) : part \notin Range(response.answer.parts)
    /\ Len(response.answer.sources) = 1

\* C20 as stated: for every query and passage text _extract_relevant_sentences
\* returns the sentences with overlap > 0 and more than 20 characters, ranked
\* by overlap descending and capped at 2, so that a passage with a qualifying
\* sentence always yields at least one sentence.
C20_ExtractsQualifying ==
    pc = "generator" =>
        \A i \in DOMAIN contexts :
            LET text == Chunk(contexts[i].id).sentences
                qualifying == {k \in DOMAIN text : Qualifies(request.q, text[k])}
                got == Yield(i)
            IN  /\ Range(got) \subseteq {text[k] : k \in qualifying}
                /\ Len(got) = IF Cardinality(qualifying) < 2
                              THEN Cardinality(qualifying) ELSE 2
                /\ qualifying # {} => got # <<>>
                /\ \A a, b \in DOMAIN got :
                      a < b => Overlap(request.q, got[a]) >= Overlap(request.q, got[b])
                /\ \A k \in qualifying :
                      text[k] \notin Range(got) =>
                         \A a \in DOMAIN got :
                            Overlap(request.q, got[a]) >= Overlap(request.q, text[k])

-----------------------------------------------------------------------------
(* Properties of the /ask handler *)

\* the requested result count brought into [1, 50]
Clamped == IF request.k < 1 THEN 1 ELSE IF request.k > 50 THEN 50 ELSE request.k

\* C14: the handler clamps the requested k to [1, 50]; in baseline mode the
\* retriever is asked for k results and the synthesizer receives its list as
\* is; in hybrid mode the retriever is asked for CANDIDATE_K (30) candidates
\* and the synthesizer receives the first k elements of what rerank made of
\* them.
C14_Dispatch ==
    /\ pc = "baseline" =>
          /\ search_k = Clamped
          /\ search_k \in 1..50
          /\ Len(candidates) <= search_k
          /\ contexts = candidates
    /\ pc = "reranked" =>
          /\ search_k = 30
          /\ SameCandidates
          /\ Len(contexts) = IF Clamped < Len(reranked_results)
                             THEN Clamped ELSE Len(reranked_results)
          /\ \A i \in DOMAIN contexts : contexts[i] = reranked_results[i]
    /\ Generated =>
          /\ Len(response.body.contexts) = Len(contexts)
          /\ \A i \in DOMAIN contexts :
                response.body.contexts[i].source = Chunk(contexts[i].id).title

\* a hybrid request for k = 0 results is served the first of three fused
\* candidates, which is not the retriever's first
C14_Witness ==
    /\ pc = "reranked"
    /\ request.k = 0
    /\ Len(reranked_results) = 3
    /\ "hybrid_score" \in DOMAIN reranked_results[1]
    /\ contexts = <<reranked_results[1]>>
    /\ contexts[1].id # candidates[1].id

\* C15 as stated: a request whose question is empty after trimming, or whose
\* mode is not an accepted one, is answered with a 400 response carrying the
\* message of the validation that failed, and neither retrieval, fusion nor synthesis runs.
C15_InputErrorsRejected ==
    (pc # "idle" /\ (Strip(request.q) = ""
                     \/ Lower(request.mode) \notin {"baseline", "reranked"})) =>
        /\ response.status_code = 400
        /\ response.detail = IF Strip(request.q) = "" THEN "Query cannot be empty"
                             ELSE "Mode must be 'baseline' or 'reranked'"
        /\ search_k = None
        /\ seen = None
        /\ contexts = <<>>

\* C16 as stated: reranker_used is true exactly when the contexts returned
\* were ranked and scored by rerank, their reported score being the fused
\* score, and false when they carry semantic-only order and scores.
C16_RerankerUsedMeansFused ==
    (Generated /\ contexts # <<>>) =>
        LET body == response.body
            fused == \A i \in DOMAIN contexts :
                        /\ "hybrid_score" \in DOMAIN contexts[i]
                        /\ body.contexts[i].score = contexts[i].hybrid_score
            semantic == \A i \in DOMAIN contexts :
                        /\ "hybrid_score" \notin DOMAIN contexts[i]
                        /\ body.contexts[i].score = contexts[i].vector_score
                        /\ contexts[i] = candidates[i]
        IN  /\ body.reranker_used <=> fused
            /\ ~body.reranker_used <=> semantic

-----------------------------------------------------------------------------
(* Properties of the index under rebuilds *)

\* C17 as stated: a rerank running concurrently with a (re)build of the index
\* never observes a partially rebuilt index: the passage-id list and the
\* scorer it reads belong to the same build, both old or both new.
C17_RebuildIsAtomic ==
    (seen # None /\ "chunk_ids" \in DOMAIN seen) =>
        /\ seen.chunk_ids = seen.bm25.docs
        /\ pc # "failed"

\* C18 as stated: after any number of builds on one reranker the index
\* reflects exactly the corpus read by the latest build: one entry of the
\* passage-id list per passage, aligned with the scorer's documents, nothing
\* left over from an earlier build, also when that corpus is empty.
C18_RebuiltWholesale ==
    build.pc = "returned" =>
        /\ chunk_ids = build.chunks
        /\ corpus = build.chunks
        /\ IF build.chunks = <<>> THEN bm25 = None
           ELSE /\ bm25 # None
                /\ bm25.docs = build.chunks
                /\ bm25.corpus_size = Len(chunk_ids)

-----------------------------------------------------------------------------
(* Further properties of fusion *)

\* how often a passage id occurs in a list of candidates
Occurrences(results, id) == Cardinality({i \in DOMAIN results : results[i].id = id})

\* C21: rerank returns a permutation of its input: the output is as long as
\* the input and each passage id occurs in it exactly as often as in the
\* input, with the semantic score it came with; a list with one entry per
\* passage stays free of duplicates and loses no candidate.
C21_Permutation ==
    pc = "reranked" =>
        /\ Len(reranked_results) = Len(candidates)
        /\ \A id \in CandIds :
              Occurrences(reranked_results, id) = Occurrences(candidates, id)
        /\ \A i \in DOMAIN reranked_results :
              \E j \in DOMAIN candidates :
                 /\ candidates[j].id = reranked_results[i].id
                 /\ candidates[j].vector_score = reranked_results[i].vector_score
        /\ \A i, j \in DOMAIN reranked_results :
              i # j => reranked_results[i].id # reranked_results[j].id

\* three candidates come back in reverse order, one of them a passage the
\* index does not hold
C21_Witness ==
    /\ pc = "reranked"
    /\ bm25 # None
    /\ Len(candidates) = 3
    /\ Len(reranked_results) = 3
    /\ reranked_results[1].id = candidates[3].id
    /\ reranked_results[2].id = candidates[2].id
    /\ reranked_results[3].id = candidates[1].id
    /\ \E i \in DOMAIN candidates : candidates[i].id \notin Range(chunk_ids)

\* the candidates of the call all have one semantic score and one lexical score
AllTie ==
    /\ \A i, j \in DOMAIN candidates : candidates[i].vector_score = candidates[j].vector_score
    /\ \A i, j \in DOMAIN candidates : LexOf(candidates[i].id) = LexOf(candidates[j].id)

\* C22: when rerank fuses, against a built index, a single candidate or
\* candidates that all tie on both signals, every fused score is exactly 1.0
\* whatever the raw scores are, and generate_answer does not abstain at the
\* confidence gate for that list, even with a semantic score below THRESHOLD.
C22_TieFusesToOne ==
    (pc = "reranked" /\ bm25 # None /\ candidates # <<>> /\ AllTie) =>
        /\ \A i \in DOMAIN reranked_results : reranked_results[i].hybrid_score = One
        /\ \A i \in DOMAIN contexts : response.body.contexts[i].score = One
        /\ response.body.reason.text # GateText
        /\ "threshold" \notin DOMAIN response.body.reason

\* a single candidate with semantic score 0.4 is answered in hybrid mode
C22_Witness ==
    /\ pc = "reranked"
    /\ bm25 # None
    /\ Len(candidates) = 1
    /\ candidates[1].vector_score = Rat(2, 5)
    /\ reranked_results[1].hybrid_score = One
    /\ response.body.answer # None
    /\ response.body.reason.top_score = 1000

-----------------------------------------------------------------------------
(* Properties of the candidate pool *)

Least(a, b) == IF a < b THEN a ELSE b

\* C23: in hybrid mode the number of contexts returned is at most
\* min(k, CANDIDATE_K): the retriever is asked for CANDIDATE_K candidates
\* whatever k is, so for a clamped k between 31 and 50 the hybrid path returns
\* no more than 30 contexts however large the corpus; the baseline path asks
\* for k and returns what it gets, up to k.
C23_PoolCapsContexts ==
    /\ pc = "reranked" =>
          /\ search_k = CANDIDATE_K
          /\ Len(candidates) <= CANDIDATE_K
          /\ Len(contexts) = Least(Clamped, Len(candidates))
          /\ Len(contexts) <= Least(Clamped, CANDIDATE_K)
          /\ Len(response.body.contexts) = Len(contexts)
    /\ pc = "baseline" =>
          /\ search_k = Clamped
          /\ Len(contexts) = Len(candidates)
          /\ Len(contexts) <= Clamped
          /\ Len(response.body.contexts) = Len(contexts)

\* a hybrid request for 60 results (clamped to 50) over 32 chunks is served
\* 30 contexts
C23_Witness ==
    /\ pc = "reranked"
    /\ request.k = 60
    /\ Len(corpus) = 32
    /\ Len(candidates) = 30
    /\ Len(response.body.contexts) = 30
    /\ "hybrid_score" \in DOMAIN contexts[30]

-----------------------------------------------------------------------------
(* Properties of split_into_chunks *)

\* the words of the text that chunk k was cut from: from its cursor on,
\* word_count of them
SpanFrom(k) == split.cursors[k]
SpanTo(k) == split.cursors[k] + split.chunks[k].word_count

SplitShape ==
    LET n == Len(split.words)
        last == Len(split.cursors)
    IN  /\ Len(split.chunks) = last
        /\ \A k \in 1..last :
              \* the cursor strictly advances on every iteration
              /\ SpanFrom(k) < (IF k < last THEN SpanFrom(k + 1) ELSE split.i)
              \* chunk_index values are consecutive from 0
              /\ split.chunks[k].chunk_index = k - 1
              \* a chunk is a run of at least one word of the text
              /\ SpanFrom(k) < SpanTo(k)
              /\ SpanTo(k) <= n
              /\ split.chunks[k].chunk_text =
                    clean_text(Slice(split.words, SpanFrom(k), SpanTo(k)))
              \* the first chunk starts at the first word, and each next one
              \* where the one before ends or inside it
              /\ IF k = 1 THEN SpanFrom(k) = 0
                 ELSE /\ SpanFrom(k) <= SpanTo(k - 1)
                      /\ SpanTo(k - 1) <= SpanTo(k)
        \* what has been emitted reaches the cursor
        /\ last > 0 => (IF split.i < n THEN split.i ELSE n) <= SpanTo(last)
        /\ split.pc = "returned" =>
              \* every word is in some chunk
              /\ \A p \in 0..(n - 1) : \E k \in 1..last : SpanFrom(k) <= p /\ p < SpanTo(k)
              /\ n = 0 => split.chunks = <<>>

\* C24: split_into_chunks terminates for every text (its word cursor strictly
\* advances on every iteration), the chunks it emits cover every word of the
\* text in order with no gap (consecutive chunks abut or overlap), and their
\* chunk_index values are consecutive from 0.  What a chunk stores of its
\* words is what clean_text leaves of them.
C24_SplitCoversAndEnds ==
    /\ [](split # None /\ SplitShape)
    /\ <>(split # None /\ split.pc = "returned")

\* a text of 700 words cut into three chunks: the first of 300 words with no
\* sentence end in its window, the second starting 50 words before the end of
\* the first and cut at a sentence end, the third abutting it; symbols are in
\* the text and in no chunk_text
C24_Witness ==
    /\ split # None
    /\ split.pc = "returned"
    /\ Len(split.words) = 700
    /\ split.cursors = <<0, 250, 520>>
    /\ split.chunks[1].word_count = 300
    /\ split.chunks[2].word_count = 270
    /\ split.chunks[3].word_count = 180
    /\ split.words[2].kind = "symbol"
    /\ Len(split.chunks[1].chunk_text) < 300

====
